---- MODULE Spec2Model ----
(***************************************************************************)
(* Model of doctor_testerson (src/doctor_testerson/__init__.py): the       *)
(* doctest driver `main`, its target loop `test_targets`, the per-target   *)
(* runner `test_target` / `test_module` / `test_text_file`, the target     *)
(* classifier `resolve_target` / `to_module_name`, and the reduction of    *)
(* the results into the printed table.                                     *)
(*                                                                         *)
(* Strings are sequences of one-character strings, so that parsing a       *)
(* target into a path, taking a suffix or a stem and joining the parts of  *)
(* a module name are computed, not assumed.  A path is the sequence of its *)
(* names below the filesystem root (the root is << >>).                    *)
(***************************************************************************)
EXTENDS Integers, Sequences, FiniteSets, TLC

VARIABLES
    fs,          \* the filesystem: [dirs, files], sets of absolute paths
    cwd,         \* the current working directory (an absolute path)
    args,        \* the parsed arguments: [targets, fail_fast, empty]
    pc,          \* the position of the (single-threaded) program
    idx,         \* test_targets: index of the target of the current iteration
    resolution,  \* test_target: what resolve_target returned
    clock,       \* monotonic_ns()
    timing,      \* clock readings of the current test_target call
    result,      \* test_targets: the result of the current iteration
    results,     \* test_targets: the list being built, then main's `results`
    history,     \* every result test_target has returned, in call order
    table,       \* main: the rows added to the table so far
    totals,      \* main: total_delta_t, total_attempted, total_passed, total_failed
    tidx,        \* main: index of the next result of the totals loop
    printed,     \* main: OUT.print(table) has run
    exit_code,   \* the exit status of the process, -1 while it runs
    docs         \* the examples of the target handed to the example engine

vars == <<fs, cwd, args, pc, idx, resolution, clock, timing, result, results,
          history, table, totals, tidx, printed, exit_code, docs>>

-----------------------------------------------------------------------------
(* Bounds *)

MaxTargets == 2
MaxOwners == 2
MaxBlocks == 3

-----------------------------------------------------------------------------
(* Strings *)

DOT == "."
SLASH == "/"

\* The characters that occur, in code-point order (str comparison in sorted()).
Alphabet ==
    <<".", "/", "R", "_", "a", "b", "c", "d", "e", "g", "i", "j", "k", "l",
      "m", "n", "o", "p", "r", "s", "t", "u", "x", "y">>

Ord(c) == CHOOSE k \in 1..Len(Alphabet) : Alphabet[k] = c

RECURSIVE StrLess(_, _)
\* a < b on str: the first differing character decides, a proper prefix is less
StrLess(a, b) ==
    IF b = << >> THEN FALSE
    ELSE IF a = << >> THEN TRUE
    ELSE IF Head(a) = Head(b) THEN StrLess(Tail(a), Tail(b))
    ELSE Ord(Head(a)) < Ord(Head(b))

RECURSIVE Join(_, _)
\* sep.join(parts)
Join(parts, sep) ==
    IF parts = << >> THEN << >>
    ELSE IF Len(parts) = 1 THEN parts[1]
    ELSE parts[1] \o <<sep>> \o Join(Tail(parts), sep)

RECURSIVE Split(_, _)
\* s.split(sep): the pieces between the separators, empty pieces included
Split(s, sep) ==
    IF \A k \in 1..Len(s) : s[k] # sep THEN <<s>>
    ELSE LET p == CHOOSE k \in 1..Len(s) :
                      s[k] = sep /\ \A m \in 1..(k - 1) : s[m] # sep
         IN  <<SubSeq(s, 1, p - 1)>> \o Split(SubSeq(s, p + 1, Len(s)), sep)

\* s.rfind("."), 1-based, 0 when there is none
RFindDot(s) ==
    IF \A k \in 1..Len(s) : s[k] # DOT THEN 0
    ELSE CHOOSE k \in 1..Len(s) :
             s[k] = DOT /\ \A m \in (k + 1)..Len(s) : s[m] # DOT

\* PurePath.suffix of a final name: from the last dot on, unless the dot is
\* the first or the last character
suffix(name) ==
    LET p == RFindDot(name)
    IN  IF 1 < p /\ p < Len(name) THEN SubSeq(name, p, Len(name)) ELSE << >>

\* PurePath.stem of a final name
stem(name) ==
    LET p == RFindDot(name)
    IN  IF 1 < p /\ p < Len(name) THEN SubSeq(name, 1, p - 1) ELSE name

-----------------------------------------------------------------------------
(* Paths *)

PARENT_DIR == <<".", ".">>
CUR_DIR == <<".">>

\* Path(target): absolute when the string starts with a slash; empty names
\* and "." names are dropped, ".." names are kept
PathOf(target) ==
    [absolute |-> target # << >> /\ Head(target) = SLASH,
     names    |-> SelectSeq(Split(target, SLASH),
                            LAMBDA n : n # << >> /\ n # CUR_DIR)]

RECURSIVE Normalize(_, _)
\* os.path.realpath without symbolic links: ".." drops the last name, and
\* stays at the root
Normalize(done, names) ==
    IF names = << >> THEN done
    ELSE IF Head(names) = PARENT_DIR
         THEN Normalize(IF done = << >> THEN << >>
                        ELSE SubSeq(done, 1, Len(done) - 1), Tail(names))
         ELSE Normalize(Append(done, Head(names)), Tail(names))

\* Path(target).resolve()
resolve(target, wd) ==
    LET p == PathOf(target)
    IN  Normalize(IF p.absolute THEN << >> ELSE wd, p.names)

\* Path.parent: the root is its own parent
parent(path) == IF path = << >> THEN << >> ELSE SubSeq(path, 1, Len(path) - 1)

\* str(path)
PathStr(path) == <<SLASH>> \o Join(path, SLASH)

exists(f, path) == path \in f.dirs \/ path \in f.files

is_file(f, path) == path \in f.files

-----------------------------------------------------------------------------
(* Target classification *)

POETRY_FILENAME ==
    <<"p", "y", "p", "r", "o", "j", "e", "c", "t", ".", "t", "o", "m", "l">>
SETUP_FILENAME == <<"s", "e", "t", "u", "p", ".", "p", "y">>
INIT_FILENAME == <<"_", "_", "i", "n", "i", "t", "_", "_", ".", "p", "y">>
PY_SUFFIX == <<".", "p", "y">>

is_poetry_root(f, dir) == is_file(f, Append(dir, POETRY_FILENAME))

is_setup_py_root(f, dir) ==
    is_file(f, Append(dir, SETUP_FILENAME)) /\ ~is_file(f, Append(dir, INIT_FILENAME))

is_package_root(f, dir) == is_poetry_root(f, dir) \/ is_setup_py_root(f, dir)

NoRoot == <<PARENT_DIR>>   \* not a path: the walk raised

RECURSIVE find_root_late(_, _)
\* find_root with the two tests of the loop body exchanged: the filesystem
\* root is given up before it is looked at
find_root_late(f, dir) ==
    IF parent(dir) = dir THEN NoRoot
    ELSE IF is_package_root(f, dir) THEN dir
    ELSE find_root_late(f, parent(dir))

RECURSIVE find_root(_, _)
\* the while loop of to_module_name: the directory it breaks at, or NoRoot
find_root(f, dir) ==
    IF is_package_root(f, dir) THEN dir
    ELSE IF parent(dir) = dir THEN NoRoot
    ELSE find_root(f, parent(dir))

to_module_name(f, file_path) ==
    LET dir == find_root(f, parent(file_path))
    IN  IF dir = NoRoot THEN [raised |-> TRUE, name |-> << >>]
        ELSE LET rel_path == SubSeq(file_path, Len(dir) + 1, Len(file_path))
                 parts == Append(parent(rel_path), stem(rel_path[Len(rel_path)]))
             IN  [raised |-> FALSE, name |-> Join(parts, DOT)]

Raised == [kind |-> "raise", name |-> << >>, path |-> << >>]

\* resolve_target returning the resolved path, not the target, as the name
\* of a module that is no filesystem entry
resolve_target_path_name(f, wd, target) ==
    LET path == resolve(target, wd)
    IN  IF ~exists(f, path)
        THEN [kind |-> "module", name |-> PathStr(path), path |-> << >>]
        ELSE IF ~is_file(f, path) THEN Raised
        ELSE IF suffix(path[Len(path)]) = PY_SUFFIX
        THEN LET m == to_module_name(f, path)
             IN  IF m.raised THEN Raised
                 ELSE [kind |-> "module", name |-> m.name, path |-> << >>]
        ELSE [kind |-> "text_file", name |-> << >>, path |-> path]

resolve_target(f, wd, target) ==
    LET path == resolve(target, wd)
    IN  IF ~exists(f, path)
        THEN [kind |-> "module", name |-> target, path |-> << >>]
        ELSE IF ~is_file(f, path) THEN Raised
        ELSE IF suffix(path[Len(path)]) = PY_SUFFIX
        THEN LET m == to_module_name(f, path)
             IN  IF m.raised THEN Raised
                 ELSE [kind |-> "module", name |-> m.name, path |-> << >>]
        ELSE [kind |-> "text_file", name |-> << >>, path |-> path]

-----------------------------------------------------------------------------
(* The example engine: doctest.testmod and doctest.testfile.  A target's    *)
(* examples are a sequence of documentation owners (one DocTest each, in    *)
(* the order the finder returns them), an owner a sequence of blocks, a     *)
(* block TRUE when its output matches and FALSE when it fails.              *)

RECURSIVE run_examples(_, _, _)
\* DocTestRunner.run on one DocTest: every example is tried and counted; with
\* FAIL_FAST the loop over this DocTest's examples breaks after a failure
run_examples(blocks, fail_fast, acc) ==
    IF blocks = << >> THEN acc
    ELSE LET now_ == [attempted |-> acc.attempted + 1,
                      failed    |-> acc.failed + (IF Head(blocks) THEN 0 ELSE 1)]
         IN  IF now_.failed > 0 /\ fail_fast THEN now_
             ELSE run_examples(Tail(blocks), fail_fast, now_)

NoTests == [attempted |-> 0, failed |-> 0]

RECURSIVE testmod(_, _)
\* doctest.testmod: runner.run(test) for every test the finder returns, and
\* the runner's summed counts
testmod(owners, fail_fast) ==
    IF owners = << >> THEN NoTests
    ELSE LET one  == run_examples(Head(owners), fail_fast, NoTests)
             rest == testmod(Tail(owners), fail_fast)
         IN  [attempted |-> one.attempted + rest.attempted,
              failed    |-> one.failed + rest.failed]

\* doctest.testfile: the whole file is one DocTest
testfile(blocks, fail_fast) == run_examples(blocks, fail_fast, NoTests)

BlockSeqs(n) == UNION {[1..k -> BOOLEAN] : k \in 0..n}

\* what a module may hold: up to MaxOwners owners of up to MaxBlocks blocks
ModuleDocs == UNION {[1..k -> BlockSeqs(MaxBlocks)] : k \in 0..MaxOwners}

\* what a text file may hold: one owner
FileDocs == {<<b>> : b \in BlockSeqs(MaxBlocks)}

RECURSIVE CountBlocks(_)
CountBlocks(owners) ==
    IF owners = << >> THEN 0 ELSE Len(Head(owners)) + CountBlocks(Tail(owners))

-----------------------------------------------------------------------------
(* Results and the report *)

tests_passed(r) == r.attempted - r.failed

\* has_errors with all() for any()
has_errors_all(rs) == \A k \in 1..Len(rs) : rs[k].failed > 0

has_errors(rs) == \E k \in 1..Len(rs) : rs[k].failed > 0

\* percent(): "-" for a zero denominator, else round(n / d * 100), which
\* rounds a half to the even integer
percent(numerator, denominator) ==
    IF denominator = 0 THEN [text |-> -1, style |-> "bright black"]
    ELSE LET q == (100 * numerator) \div denominator
             r == (100 * numerator) % denominator
             number == IF 2 * r < denominator THEN q
                       ELSE IF 2 * r > denominator THEN q + 1
                       ELSE IF q % 2 = 0 THEN q ELSE q + 1
         IN  [text |-> number,
              style |-> IF number = 100 THEN "bold green" ELSE "bold red"]

RECURSIVE insert_by_name(_, _)
\* r goes after every element whose name is not greater (sorted() is stable)
insert_by_name(sorted, r) ==
    IF sorted = << >> THEN <<r>>
    ELSE IF StrLess(r.name, Head(sorted).name) THEN <<r>> \o sorted
    ELSE <<Head(sorted)>> \o insert_by_name(Tail(sorted), r)

RECURSIVE sorted_by_name(_)
\* sorted(results, key=lambda r: r.name)
sorted_by_name(rs) ==
    IF rs = << >> THEN << >>
    ELSE insert_by_name(sorted_by_name(SubSeq(rs, 1, Len(rs) - 1)), rs[Len(rs)])

result_row(r) ==
    [row |-> "result", name |-> r.name, delta_t |-> r.delta_t,
     passed |-> tests_passed(r), failed |-> r.failed,
     pct |-> percent(tests_passed(r), r.attempted)]

EmptyRow ==
    [row |-> "separator", name |-> << >>, delta_t |-> 0, passed |-> 0,
     failed |-> 0, pct |-> percent(0, 0)]

total_row(t) ==
    [row |-> "total", name |-> << >>, delta_t |-> t.delta_t,
     passed |-> t.passed, failed |-> t.failed,
     pct |-> percent(t.passed, t.attempted)]

ZeroTotals == [delta_t |-> 0, attempted |-> 0, passed |-> 0, failed |-> 0]

\* the filter with the two flags exchanged
kept_swapped(empty, r) ==
    \/ empty = "None"
    \/ (empty = "True" /\ r.attempted # 0)
    \/ (empty = "False" /\ r.attempted = 0)

\* the filter of test_targets on args.empty (None, True or False)
kept(empty, r) ==
    \/ empty = "None"
    \/ (empty = "True" /\ r.attempted = 0)
    \/ (empty = "False" /\ r.attempted # 0)

-----------------------------------------------------------------------------
(* The world the driver runs in *)

n_R == <<"R">>
n_pkg == <<"p", "k", "g">>
n_sub == <<"s", "u", "b">>
n_mod_py == <<"m", "o", "d", ".", "p", "y">>
n_doc_txt == <<"d", "o", "c", ".", "t", "x", "t">>

RootDir == << >>
DirR == <<n_R>>
DirPkg == <<n_R, n_pkg>>
DirSub == <<n_R, n_pkg, n_sub>>
Dirs == {RootDir, DirR, DirPkg, DirSub}

ModFile == Append(DirSub, n_mod_py)
DocFile == Append(DirSub, n_doc_txt)

\* target strings
T_module == Join(<<n_pkg, n_sub, <<"m", "o", "d">> >>, DOT)       \* pkg.sub.mod
T_rel_py == Join(<<n_pkg, n_sub, n_mod_py>>, SLASH)               \* pkg/sub/mod.py
T_abs_py == PathStr(ModFile)                                      \* /R/pkg/sub/mod.py
T_abs_txt == PathStr(DocFile)                                     \* /R/pkg/sub/doc.txt
T_dir == PathStr(DirPkg)                                          \* /R/pkg
T_dotted == Join(<<PARENT_DIR, n_R, CUR_DIR, n_pkg, << >>, n_sub, n_mod_py>>, SLASH)
                                                                  \* ../R/./pkg//sub/mod.py
T_setup_py == PathStr(Append(DirPkg, SETUP_FILENAME))             \* /R/pkg/setup.py
T_bare_py == n_mod_py                                             \* mod.py

\* a poetry project in /R holding pkg/sub/mod.py and pkg/sub/doc.txt
ProjectFS ==
    [dirs |-> Dirs,
     files |-> {Append(DirR, POETRY_FILENAME), Append(DirPkg, INIT_FILENAME),
                Append(DirSub, INIT_FILENAME), ModFile, DocFile}]

RunTargets == {T_module, T_rel_py, T_abs_txt, T_dir}

TargetLists == UNION {[1..n -> RunTargets] : n \in 1..MaxTargets}

\* the examples a target of a whole run may hold
MaxRunBlocks == 1
RunDocs == {d \in ModuleDocs : CountBlocks(d) <= MaxRunBlocks}
RunFileDocs == {d \in FileDocs : CountBlocks(d) <= MaxRunBlocks}

NoResult ==
    [target |-> << >>, kind |-> "none", name |-> << >>, delta_t |-> 0,
     attempted |-> 0, failed |-> 0]

NoTiming == [enter |-> -1, resolved |-> -1, loaded |-> -1, start |-> -1, end |-> -1]

NoResolution == [kind |-> "none", name |-> << >>, path |-> << >>]

\* the state of the process when main is entered
Entered ==
    /\ pc = "main"
    /\ idx = 0
    /\ resolution = NoResolution
    /\ clock = 0
    /\ timing = NoTiming
    /\ result = NoResult
    /\ results = << >>
    /\ history = << >>
    /\ table = << >>
    /\ totals = ZeroTotals
    /\ tidx = 0
    /\ printed = FALSE
    /\ exit_code = -1

Init ==
    /\ fs = ProjectFS
    /\ cwd = DirR
    /\ args \in [targets : TargetLists, fail_fast : BOOLEAN,
                 empty : {"None", "True", "False"}]
    /\ docs = << >>
    /\ Entered

-----------------------------------------------------------------------------
(* test_targets and test_target *)

\* main calls test_targets(args): results = []
Main_test_targets ==
    /\ pc = "main"
    /\ pc' = "for_target"
    /\ idx' = 1
    /\ results' = << >>
    /\ UNCHANGED <<fs, cwd, args, resolution, clock, timing, result, history,
                   table, totals, tidx, printed, exit_code, docs>>

\* the next iteration calls test_target, which calls resolve_target; an
\* exception it raises is caught nowhere and ends the process
TestTarget_resolve ==
    /\ pc = "for_target"
    /\ idx <= Len(args.targets)
    /\ LET r == resolve_target(fs, cwd, args.targets[idx])
       IN  /\ resolution' = r
           /\ clock' = clock + 1
           /\ timing' = [NoTiming EXCEPT !.enter = clock, !.resolved = clock + 1]
           /\ IF r.kind = "raise"
              THEN pc' = "crashed" /\ exit_code' = 1
              ELSE /\ pc' = (IF r.kind = "module" THEN "test_module" ELSE "test_text_file")
                   /\ exit_code' = exit_code
    /\ UNCHANGED <<fs, cwd, args, idx, result, results, history, table, totals,
                   tidx, printed, docs>>

\* test_module: import_module(module_name), which may raise
TestModule_import ==
    /\ pc = "test_module"
    /\ clock' = clock + 1
    /\ timing' = [timing EXCEPT !.loaded = clock + 1]
    /\ \E imported \in BOOLEAN :
          IF imported
          THEN pc' = "testmod" /\ exit_code' = exit_code
          ELSE pc' = "crashed" /\ exit_code' = 1
    /\ UNCHANGED <<fs, cwd, args, idx, resolution, result, results, history,
                   table, totals, tidx, printed, docs>>

\* test_module with t_start read before import_module
test_module_run_early_start(d) ==
    /\ pc = "testmod"
    /\ LET t_start == timing.resolved
           tests   == testmod(d, args.fail_fast)
           t_end   == clock + tests.attempted
           r == [target |-> args.targets[idx], kind |-> "module",
                 name |-> resolution.name, delta_t |-> t_end - t_start,
                 attempted |-> tests.attempted, failed |-> tests.failed]
       IN  /\ clock' = t_end
           /\ timing' = [timing EXCEPT !.start = t_start, !.end = t_end]
           /\ result' = r
           /\ history' = Append(history, r)
    /\ pc' = "filter"
    /\ UNCHANGED <<fs, cwd, args, idx, resolution, results, table, totals, tidx,
                   printed, exit_code, docs>>

\* test_module: t_start, doctest.testmod, delta_t, ModuleResult
test_module_run(d) ==
    /\ pc = "testmod"
    /\ LET t_start == clock
           tests   == testmod(d, args.fail_fast)
           t_end   == clock + tests.attempted
           r == [target |-> args.targets[idx], kind |-> "module",
                 name |-> resolution.name, delta_t |-> t_end - t_start,
                 attempted |-> tests.attempted, failed |-> tests.failed]
       IN  /\ clock' = t_end
           /\ timing' = [timing EXCEPT !.start = t_start, !.end = t_end]
           /\ result' = r
           /\ history' = Append(history, r)
    /\ pc' = "filter"
    /\ UNCHANGED <<fs, cwd, args, idx, resolution, results, table, totals, tidx,
                   printed, exit_code, docs>>

\* test_text_file: t_start, doctest.testfile, delta_t, TextFileResult
test_text_file_run(d) ==
    /\ pc = "test_text_file"
    /\ LET t_start == clock
           tests   == testfile(d[1], args.fail_fast)
           t_end   == clock + tests.attempted
           r == [target |-> args.targets[idx], kind |-> "text_file",
                 name |-> PathStr(resolution.path), delta_t |-> t_end - t_start,
                 attempted |-> tests.attempted, failed |-> tests.failed]
       IN  /\ clock' = t_end
           /\ timing' = [timing EXCEPT !.start = t_start, !.end = t_end]
           /\ result' = r
           /\ history' = Append(history, r)
    /\ pc' = "filter"
    /\ UNCHANGED <<fs, cwd, args, idx, resolution, results, table, totals, tidx,
                   printed, exit_code, docs>>

\* the rest of the loop body: the result is appended when the filter keeps it
TestTargets_filter ==
    /\ pc = "filter"
    /\ results' = IF kept(args.empty, result) THEN Append(results, result) ELSE results
    /\ idx' = idx + 1
    /\ pc' = "for_target"
    /\ UNCHANGED <<fs, cwd, args, resolution, clock, timing, result, history,
                   table, totals, tidx, printed, exit_code, docs>>

\* the loop is over: return results
TestTargets_return ==
    /\ pc = "for_target"
    /\ idx > Len(args.targets)
    /\ pc' = "returned"
    /\ UNCHANGED <<fs, cwd, args, idx, resolution, clock, timing, result, results,
                   history, table, totals, tidx, printed, exit_code, docs>>

-----------------------------------------------------------------------------
(* main after test_targets *)

\* args.fail_fast is True and has_errors(results): sys.exit(1)
Main_fail_fast_exit ==
    /\ pc = "returned"
    /\ args.fail_fast /\ has_errors(results)
    /\ pc' = "exited"
    /\ exit_code' = 1
    /\ UNCHANGED <<fs, cwd, args, idx, resolution, clock, timing, result, results,
                   history, table, totals, tidx, printed, docs>>

\* otherwise: one row per result, sorted by name, then the empty row; the
\* totals start at zero
Main_add_rows ==
    /\ pc = "returned"
    /\ ~(args.fail_fast /\ has_errors(results))
    /\ LET ordered == sorted_by_name(results)
       IN  table' = Append([k \in 1..Len(ordered) |-> result_row(ordered[k])], EmptyRow)
    /\ totals' = ZeroTotals
    /\ tidx' = 1
    /\ pc' = "totals"
    /\ UNCHANGED <<fs, cwd, args, idx, resolution, clock, timing, result, results,
                   history, printed, exit_code, docs>>

\* the loop body adding the attempted examples to total_passed
add_result_attempted(t, r) ==
    [delta_t   |-> t.delta_t + r.delta_t,
     attempted |-> t.attempted + r.attempted,
     passed    |-> t.passed + r.attempted,
     failed    |-> t.failed + r.failed]

\* the body of `for result in results` that adds to the totals
add_result(t, r) ==
    [delta_t   |-> t.delta_t + r.delta_t,
     attempted |-> t.attempted + r.attempted,
     passed    |-> t.passed + tests_passed(r),
     failed    |-> t.failed + r.failed]

Main_add_to_totals ==
    /\ pc = "totals"
    /\ tidx <= Len(results)
    /\ totals' = add_result(totals, results[tidx])
    /\ tidx' = tidx + 1
    /\ UNCHANGED <<fs, cwd, args, pc, idx, resolution, clock, timing, result,
                   results, history, table, printed, exit_code, docs>>

\* the Total row, OUT.print(table), and main returns
Main_print ==
    /\ pc = "totals"
    /\ tidx > Len(results)
    /\ table' = Append(table, total_row(totals))
    /\ printed' = TRUE
    /\ pc' = "done"
    /\ exit_code' = 0
    /\ UNCHANGED <<fs, cwd, args, idx, resolution, clock, timing, result, results,
                   history, totals, tidx, docs>>

Next ==
    \/ Main_test_targets
    \/ TestTarget_resolve
    \/ TestModule_import
    \/ \E d \in RunDocs : test_module_run(d)
    \/ \E d \in RunFileDocs : test_text_file_run(d)
    \/ TestTargets_filter
    \/ TestTargets_return
    \/ Main_fail_fast_exit
    \/ Main_add_rows
    \/ Main_add_to_totals
    \/ Main_print

Spec == Init /\ [][Next]_vars

Terminated == pc \in {"done", "exited", "crashed"}

-----------------------------------------------------------------------------
(* The classifier on its own: one test_target call that starts in any of    *)
(* the filesystems below, from either working directory, on any target.     *)

Markers == {POETRY_FILENAME, SETUP_FILENAME, INIT_FILENAME}

\* /R/pkg/sub/doc.txt always exists, mod.py may; every directory holds any
\* of the three marker files, the root a manifest, a setup.py or neither
AllFS ==
    {[dirs |-> Dirs,
      files |-> {DocFile} \cup leaf \cup marked
                \cup {Append(RootDir, m) : m \in top}] :
        leaf \in {{}, {ModFile}},
        marked \in SUBSET {Append(d, m) : d \in Dirs \ {RootDir}, m \in Markers},
        top \in {{}, {POETRY_FILENAME}, {SETUP_FILENAME}}}

ResolveTargets ==
    {T_module, T_rel_py, T_abs_py, T_abs_txt, T_dir, T_dotted, T_setup_py, T_bare_py}

InitResolve ==
    /\ fs \in AllFS
    /\ cwd \in {DirR, DirSub}
    /\ \E t \in ResolveTargets :
          args = [targets |-> <<t>>, fail_fast |-> FALSE, empty |-> "None"]
    /\ docs = << >>
    /\ pc = "for_target"
    /\ idx = 1
    /\ resolution = NoResolution
    /\ clock = 0
    /\ timing = NoTiming
    /\ result = NoResult
    /\ results = << >>
    /\ history = << >>
    /\ table = << >>
    /\ totals = ZeroTotals
    /\ tidx = 0
    /\ printed = FALSE
    /\ exit_code = -1

NextResolve == TestTarget_resolve

SpecResolve == InitResolve /\ [][NextResolve]_vars

-----------------------------------------------------------------------------
(* The example engine on its own: one engine call of test_module or         *)
(* test_text_file, on any examples within the bounds, which `docs` holds.   *)

InitEngine ==
    /\ fs = ProjectFS
    /\ cwd = DirR
    /\ \E ff \in BOOLEAN :
          \/ /\ args = [targets |-> <<T_module>>, fail_fast |-> ff, empty |-> "None"]
             /\ docs \in ModuleDocs
             /\ pc = "testmod"
             /\ clock = 2
             /\ timing = [NoTiming EXCEPT !.enter = 0, !.resolved = 1, !.loaded = 2]
          \/ /\ args = [targets |-> <<T_abs_txt>>, fail_fast |-> ff, empty |-> "None"]
             /\ docs \in FileDocs
             /\ pc = "test_text_file"
             /\ clock = 1
             /\ timing = [NoTiming EXCEPT !.enter = 0, !.resolved = 1]
    /\ resolution = resolve_target(fs, cwd, args.targets[1])
    /\ idx = 1
    /\ result = NoResult
    /\ results = << >>
    /\ history = << >>
    /\ table = << >>
    /\ totals = ZeroTotals
    /\ tidx = 0
    /\ printed = FALSE
    /\ exit_code = -1

NextEngine ==
    \/ test_module_run(docs)
    \/ test_text_file_run(docs)

SpecEngine == InitEngine /\ [][NextEngine]_vars

-----------------------------------------------------------------------------
(* Properties of the classifier (checked under SpecResolve) *)

\* the target of the one call, and where it points
TheTarget == args.targets[1]
ThePath == resolve(TheTarget, cwd)
Resolved == pc # "for_target"

\* the name ends in ".py" after at least one other character
EndsWithPy(name) ==
    /\ Len(name) > 3
    /\ SubSeq(name, Len(name) - 2, Len(name)) = <<".", "p", "y">>

\* C4: resolve_target classifies a target by what is at its resolved path:
\* nothing there gives the module named by the target string itself; an
\* entry that is no regular file raises; a regular file not ending in .py
\* gives the text file at the resolved path; a regular .py file is the
\* source-file case (a module name, or the failure of the walk).
C4_Classification ==
    Resolved =>
        /\ ~exists(fs, ThePath) =>
              /\ resolution = [kind |-> "module", name |-> TheTarget, path |-> << >>]
              /\ pc = "test_module"
        /\ (exists(fs, ThePath) /\ ThePath \notin fs.files) =>
              /\ resolution.kind = "raise"
              /\ pc = "crashed"
        /\ (ThePath \in fs.files /\ ~EndsWithPy(ThePath[Len(ThePath)])) =>
              /\ resolution = [kind |-> "text_file", name |-> << >>, path |-> ThePath]
              /\ pc = "test_text_file"
        /\ (ThePath \in fs.files /\ EndsWithPy(ThePath[Len(ThePath)])) =>
              resolution.kind \in {"module", "raise"}

\* a target with "..", "." and "//" in it that names nothing: it comes back
\* as written
C4_Witness ==
    /\ Resolved
    /\ TheTarget = T_dotted
    /\ ~exists(fs, ThePath)
    /\ resolution.kind = "module"
    /\ resolution.name # PathStr(ThePath)

\* the directory holds a manifest, or a setup.py and no __init__.py
HoldsManifest(dir) ==
    \/ Append(dir, POETRY_FILENAME) \in fs.files
    \/ /\ Append(dir, SETUP_FILENAME) \in fs.files
       /\ Append(dir, INIT_FILENAME) \notin fs.files

\* the lengths of the ancestor directories of the path that are package roots
RootDepths(path) == {k \in 0..(Len(path) - 1) : HoldsManifest(SubSeq(path, 1, k))}

Deepest(depths) == CHOOSE k \in depths : \A m \in depths : m <= k

\* the names below the directory of length k, the last without its ".py"
DottedBelow(path, k) ==
    Join([n \in 1..(Len(path) - k) |->
             IF k + n = Len(path)
             THEN SubSeq(path[k + n], 1, Len(path[k + n]) - 3)
             ELSE path[k + n]], DOT)

\* C5: for an existing .py file the module name is the dot-joined names from
\* the nearest ancestor that is a package root down to the file, without
\* the extension; with no package root up to and including the filesystem
\* root the call raises.
C5_ModuleName ==
    (Resolved /\ ThePath \in fs.files /\ EndsWithPy(ThePath[Len(ThePath)])) =>
        IF RootDepths(ThePath) = {}
        THEN resolution.kind = "raise" /\ pc = "crashed"
        ELSE /\ resolution.kind = "module"
             /\ resolution.name = DottedBelow(ThePath, Deepest(RootDepths(ThePath)))
             /\ (Deepest(RootDepths(ThePath)) = 1 /\ ThePath = ModFile)
                    => resolution.name = T_module

\* /R/pkg/sub/mod.py with the manifest in /R, reached through the relative
\* target, resolves to pkg.sub.mod
C5_Witness ==
    /\ Resolved
    /\ TheTarget = T_rel_py
    /\ ThePath = ModFile
    /\ RootDepths(ThePath) = {1}
    /\ resolution.name = T_module

\* the walk reaches the filesystem root, which is the only package root
C5_RootWitness ==
    /\ Resolved
    /\ ThePath = ModFile
    /\ RootDepths(ThePath) = {0}
    /\ resolution.kind = "module"

-----------------------------------------------------------------------------
(* Properties of a whole run (checked under Spec) *)

Returned == pc \in {"returned", "exited", "totals", "done"}

SomeFailure(rs) == \E k \in 1..Len(rs) : rs[k].failed > 0

RECURSIVE SumSeq(_)
SumSeq(ns) == IF ns = << >> THEN 0 ELSE Head(ns) + SumSeq(Tail(ns))

Reverse(sq) == [k \in 1..Len(sq) |-> sq[Len(sq) + 1 - k]]

\* C6: what test_targets returns is the per-target results filtered by the
\* mode: all of them with no flag, those with attempted = 0 with --empty,
\* those with attempted # 0 with --no-empty, in the order of the targets and
\* unchanged.
C6_Filter ==
    Returned =>
        /\ Len(history) = Len(args.targets)
        /\ \A k \in 1..Len(history) : history[k].target = args.targets[k]
        /\ args.empty = "None" => results = history
        /\ args.empty = "True" =>
              results = SelectSeq(history, LAMBDA r : r.attempted = 0)
        /\ args.empty = "False" =>
              results = SelectSeq(history, LAMBDA r : r.attempted # 0)

\* --empty dropped one of two results and kept the other
C6_Witness ==
    /\ pc = "returned"
    /\ args.empty = "True"
    /\ Len(history) = 2
    /\ Len(results) = 1
    /\ history[1].attempted > 0

\* C7: at the end of the totals loop the totals are the sums over the
\* results of attempted, attempted - failed and failed (0 for no results),
\* the same in any order of the results, and passed + failed = attempted.
C7_Totals ==
    (pc = "done" \/ (pc = "totals" /\ tidx > Len(results))) =>
        LET att == [k \in 1..Len(results) |-> results[k].attempted]
            fai == [k \in 1..Len(results) |-> results[k].failed]
            pas == [k \in 1..Len(results) |-> results[k].attempted - results[k].failed]
            byName == sorted_by_name(results)
        IN  /\ totals.attempted = SumSeq(att)
            /\ totals.failed = SumSeq(fai)
            /\ totals.passed = SumSeq(pas)
            /\ totals.attempted = SumSeq(Reverse(att))
            /\ totals.failed = SumSeq(Reverse(fai))
            /\ totals.passed = SumSeq(Reverse(pas))
            /\ totals.attempted = SumSeq([k \in 1..Len(byName) |-> byName[k].attempted])
            /\ totals.failed = SumSeq([k \in 1..Len(byName) |-> byName[k].failed])
            /\ totals.passed + totals.failed = totals.attempted
            /\ results = << >> =>
                  totals.attempted = 0 /\ totals.passed = 0 /\ totals.failed = 0

\* two results, with passes and failures, summed and printed
C7_Witness ==
    /\ pc = "done"
    /\ Len(results) = 2
    /\ totals.passed > 0
    /\ totals.failed > 0

\* C8 as stated: the start reading is taken before the target is classified
\* and loaded, so that the elapsed time covers the whole test_target call.
C8_WholeTarget ==
    pc = "filter" =>
        /\ timing.start <= timing.enter
        /\ result.delta_t = timing.end - timing.enter

\* C8: the elapsed time covers the engine call only: the start reading is
\* taken after resolve_target has returned and, for a module, after
\* import_module has returned, and the end reading after the last attempted
\* block; delta_t is their difference.
C8_EngineOnly ==
    pc = "filter" =>
        /\ timing.enter < timing.resolved
        /\ timing.start >= timing.resolved
        /\ result.kind = "module" =>
              timing.resolved < timing.loaded /\ timing.start >= timing.loaded
        /\ timing.end = timing.start + result.attempted
        /\ result.delta_t = timing.end - timing.start

\* a module target that ran an example
C8_Witness ==
    /\ pc = "filter"
    /\ result.kind = "module"
    /\ result.attempted > 0
    /\ result.delta_t < timing.end - timing.enter

\* the rows of the table that show results
ResultRows == SelectSeq(table, LAMBDA w : w.row = "result")

\* C10: without --fail-fast a run in which nothing raised ends with the
\* table printed (one row per kept result, the empty row and the Total row)
\* and exit code 0, whatever failed; with --fail-fast and a failure among
\* the kept results main exits with 1 and no row has been added.  Until it
\* ends the program is at a position whose step can be taken.
C10_Report ==
    /\ ~Terminated =>
          /\ pc \in {"main", "for_target", "test_module", "testmod",
                     "test_text_file", "filter", "returned", "totals"}
          /\ pc = "for_target" => idx \in 1..(Len(args.targets) + 1)
          /\ pc \in {"test_module", "testmod", "test_text_file", "filter"} =>
                idx \in 1..Len(args.targets)
          /\ pc = "totals" => tidx \in 1..(Len(results) + 1)
    /\ (~args.fail_fast /\ pc # "crashed") => exit_code \in {-1, 0}
    /\ (Terminated /\ ~args.fail_fast /\ pc # "crashed") =>
          /\ pc = "done"
          /\ printed
          /\ exit_code = 0
          /\ Len(table) = Len(results) + 2
          /\ Len(ResultRows) = Len(results)
          /\ table[Len(table)].row = "total"
    /\ (Returned /\ pc # "returned" /\ args.fail_fast /\ SomeFailure(results)) =>
          /\ pc = "exited"
          /\ exit_code = 1
          /\ table = << >>
          /\ ~printed

\* a failure without --fail-fast, and the table printed with exit code 0
C10_Witness ==
    /\ pc = "done"
    /\ ~args.fail_fast
    /\ SomeFailure(results)
    /\ Len(results) = 2

\* --fail-fast and a failure: exit before any row
C10_ExitWitness ==
    /\ pc = "exited"
    /\ Len(results) = 2
    /\ ~SomeFailure(<<results[2]>>)

-----------------------------------------------------------------------------
(* Statements the code does not satisfy *)

\* C1: every supplied target appears exactly once in the final report, also
\* when resolve_target or import_module raises for it, and without
\* --fail-fast such an error does not end the run.
C1_EveryTargetReported ==
    /\ ~args.fail_fast => pc # "crashed"
    /\ Terminated =>
          /\ printed
          /\ Len(ResultRows) = Len(args.targets)
          /\ [k \in 1..Len(results) |-> results[k].target] = args.targets

\* C2: when main has exited, its exit code is non-zero exactly when
\* --fail-fast is set and a processed target had a failed example, whatever
\* the --empty / --no-empty filter.
C2_ExitCode ==
    pc \in {"done", "exited"} =>
        (exit_code # 0 <=> (args.fail_fast /\ SomeFailure(history)))

\* C3: with --fail-fast, once a test_target call has returned a result with
\* failed > 0, test_targets calls test_target no more.
C3_NoFurtherTarget ==
    [][(args.fail_fast /\ SomeFailure(history)) => ~TestTarget_resolve]_vars

RECURSIVE Flat(_)
\* all blocks of a target, owner after owner
Flat(owners) == IF owners = << >> THEN << >> ELSE Head(owners) \o Flat(Tail(owners))

\* the position of the first failing block, 0 when none fails
FirstFailure(blocks) ==
    IF \A k \in 1..Len(blocks) : blocks[k] THEN 0
    ELSE CHOOSE k \in 1..Len(blocks) :
             ~blocks[k] /\ \A m \in 1..(k - 1) : blocks[m]

\* C9 (checked under SpecEngine): with fail-fast a target's blocks stop at
\* its first failing block, which is the last one attempted and the only
\* failure; without it every block is attempted.  For text files and for
\* modules with several owners alike.
C9_StopsAtFirstFailure ==
    pc = "filter" =>
        LET blocks == Flat(docs)
            first  == FirstFailure(blocks)
        IN  IF args.fail_fast /\ first > 0
            THEN result.attempted = first /\ result.failed = 1
            ELSE result.attempted = Len(blocks)

====
